---- MODULE Spec2Model ----
(***************************************************************************)
(* A model of gpsd-assistnow: the UBX framing used by assistnow.py and     *)
(* gpsd-assistnow.py, the forwarding loop (send_data / send2gps), the      *)
(* response synchronizer (wait_for / fetch_answer / register) and the      *)
(* assistance cache manager (AssistNow.__init__ / update).                 *)
(*                                                                         *)
(* Byte strings are sequences of integers in 0..255.  The base class       *)
(* gps.ubx.ubx (checksum, make_pkt, decode_msg, commands) is a library the *)
(* scripts import; it is modelled here for UBX frames and for bytes that   *)
(* start no other framing of that decoder (no '$', '{', '#', 0xd3, CR, LF).*)
(***************************************************************************)
EXTENDS Integers, Sequences, FiniteSets, TLC

\* ------------------------------------------------------------------ bounds
\* Longest stream, counted in items (a frame, a damaged frame, a noise byte).
MaxItems == 3
\* Longest stream the receiver puts on the channel during one run, in items.
MaxWireItems == 2
\* Most deliveries the channel makes during one run.
MaxChunks == 2
\* Most keys among data, gnss, alt, pacc that one request gives.
MaxOptional == 1
\* Oldest cache file the model tells apart, in hours.
MaxAge == 2
\* Most runs of assistnow.py in one behaviour.
MaxRuns == 3
\* Most runs of both scripts, on arguments valid or not, in one behaviour.
MaxWideRuns == 2


SYNC1 == 181
SYNC2 == 98

\* data[a:b] on a 0-based Python slice, as a 1-based TLA+ sequence.
Slice(s, a, b) == SubSeq(s, a + 1, IF b > Len(s) THEN Len(s) ELSE b)

RECURSIVE Flatten(_)
Flatten(ss) == IF ss = << >> THEN << >> ELSE Head(ss) \o Flatten(Tail(ss))

\* ------------------------------------------------------- gps.ubx.ubx (library)
\* The 8-bit Fletcher sum over class, id, length and payload:
\* ck_a += byte; ck_b += ck_a, both modulo 256.
RECURSIVE FletcherFrom(_, _, _, _)
FletcherFrom(raw, i, a, b) ==
    IF i > Len(raw) THEN << a, b >>
    ELSE LET a2 == (a + raw[i]) % 256
         IN  FletcherFrom(raw, i + 1, a2, (b + a2) % 256)

checksum(raw) == FletcherFrom(raw, 1, 0, 0)

\* 0xB5 0x62 class id length_le16 payload ck_a ck_b
make_pkt(m_cls, m_id, m_data) ==
    LET body == << m_cls, m_id, Len(m_data) % 256, Len(m_data) \div 256 >> \o m_data
    IN  << SYNC1, SYNC2 >> \o body \o checksum(body)

\* The decoder's state machine, one byte per step; the value is the number of
\* bytes consumed, 0 when the buffer ends inside a message.  The bytes that
\* precede the sync marker are counted into the same result as the frame.
\* A checksum mismatch is reported on stderr only: the count is the same.
RECURSIVE UbxScan(_, _, _, _, _)
UbxScan(out, i, state, m_len, got) ==
    IF i > Len(out) THEN 0
    ELSE LET c == out[i]
             n == i + 1
         IN  CASE state = "BASE" ->
                    UbxScan(out, n, IF c = SYNC1 THEN "HEADER1" ELSE "BASE", 0, 0)
               [] state = "HEADER1" ->
                    UbxScan(out, n, IF c = SYNC2 THEN "HEADER2" ELSE "BASE", 0, 0)
               [] state = "HEADER2" -> UbxScan(out, n, "CLASS", 0, 0)
               [] state = "CLASS" -> UbxScan(out, n, "ID", 0, 0)
               [] state = "ID" -> UbxScan(out, n, "LEN1", c, 0)
               [] state = "LEN1" ->
                    LET l == m_len + 256 * c
                    IN  UbxScan(out, n, IF l = 0 THEN "CSUM1" ELSE "PAYLOAD", l, 0)
               [] state = "PAYLOAD" ->
                    UbxScan(out, n, IF got + 1 = m_len THEN "CSUM1" ELSE "PAYLOAD",
                            m_len, got + 1)
               [] state = "CSUM1" -> UbxScan(out, n, "CSUM2", m_len, got)
               [] OTHER -> i

ubx_decode_msg(out) == UbxScan(out, 1, "BASE", 0, 0)

\* Command registry: name -> (class, id) of the poll request ("opt").
commands ==
    [ n \in {"SEC-UNIQID", "MON-VER"} |->
        IF n = "SEC-UNIQID" THEN [cls |-> 39, id |-> 3, data |-> << >>]
        ELSE [cls |-> 10, id |-> 4, data |-> << >>] ]

\* ------------------------------------------------------------ frames, streams
\* A frame is valid iff it starts with the sync marker, its declared length is
\* its payload's, and both checksum bytes match the recomputed ones.
IsValidPacket(p) ==
    /\ Len(p) >= 8
    /\ p[1] = SYNC1 /\ p[2] = SYNC2
    /\ Len(p) = 8 + p[5] + 256 * p[6]
    /\ << p[Len(p) - 1], p[Len(p)] >> = checksum(SubSeq(p, 3, Len(p) - 2))

\* A frame with its last checksum byte damaged.
BadChecksum(p) == [p EXCEPT ![Len(p)] = (p[Len(p)] + 1) % 256]

UniqidPkt == make_pkt(39, 3, << 1 >>)
MonVerPkt == make_pkt(10, 4, << >>)
NoiseByte == << 0 >>

Items ==
    { NoiseByte, UniqidPkt, MonVerPkt, BadChecksum(UniqidPkt), SubSeq(UniqidPkt, 1, 5) }

ItemSeqs(max) == UNION { [1..n -> Items] : n \in 0..max }

Streams == { Flatten(s) : s \in ItemSeqs(MaxItems) }

WireStreams == { Flatten(s) : s \in ItemSeqs(MaxWireItems) }

\* --------------------------------------------------------------------- state
VARIABLES
    \* the forwarding loop
    sd_variant,     \* which forwarding loop runs: "send_data" or "send2gps"
    sd_pc,          \* "loop" while the forwarding loop runs, then "done"
    sd_data,        \* the bytes not yet consumed by the forwarding loop
    sd_consumed,    \* what the last decode of the loop reported (-1: none yet)
    sd_written,     \* the byte strings handed to gps_send_raw, in order
    \* the main flow of assistnow.py up to and including register
    m_pc,           \* position in __main__ / register
    m_token,        \* whether token=TOKEN was given
    m_exit,         \* the process exit status (-1 while running)
    m_out,          \* the lines printed by __main__
    cfg_file,       \* assistnow.json: the persisted config, Unregistered if none
    config,         \* self.config
    wire,           \* bytes the receiver will still put on the channel
    chunks,         \* deliveries made by the channel so far
    sock,           \* bytes waiting in the socket (ser.waiting() is their count)
    tx,             \* packets written to the receiver by gps_send
    w_cmd,          \* the command wait_for is waiting on
    w_state,        \* "idle", "polling" or "returned"
    w_data,         \* wait_for's accumulation buffer
    w_elapsed,      \* monotonic() - start of the running wait_for
    w_ret,          \* what the last wait_for returned
    w_consumed,     \* every byte the decoder consumed in this wait_for call
    sec_uniqid,     \* register's local sec_uniqid (hex digits)
    mon_ver,        \* register's local mon_ver (hex digits)
    r_raised,       \* what register raised: "notcalled", "none", or the error
    cloud_calls,    \* requests posted to the credentials service
    \* the assistance cache across runs of assistnow.py
    cache_file,     \* assistnow.cache: None, or Some(bytes)
    cache_age,      \* time.time() - st_mtime of assistnow.cache, in hours
    cache_prov,     \* the params of the fetch whose bytes assistnow.cache holds
    runs,           \* runs of assistnow.py so far
    u_dur,          \* self.cache_duration of the last run
    u_run           \* what the last step did, as update reports it (IdleRun: no run)

sendVars == << sd_variant, sd_pc, sd_data, sd_consumed, sd_written >>

waitVars == << wire, chunks, sock, tx, w_cmd, w_state, w_data, w_elapsed, w_ret,
               w_consumed >>

mainVars == << m_pc, m_token, m_exit, m_out, cfg_file, config, sec_uniqid, mon_ver,
               r_raised, cloud_calls >>

cacheVars == << cache_file, cache_age, cache_prov, runs, u_dur, u_run >>

vars == << sendVars, waitVars, mainVars, cacheVars >>

\* ----------------------------------------------------- UBlox.decode_msg (wrapper)
\* A decode wrapper that empties the buffer when no message is complete.
decode_msg_drops_partial(data) ==
    LET consumed == ubx_decode_msg(data)
    IN  [ consumed |-> consumed,
          packet   |-> Slice(data, 0, consumed),
          rest     |-> IF consumed = 0 THEN << >> ELSE Slice(data, consumed, Len(data)) ]

\* A decode wrapper that forgets to drop the consumed bytes.
decode_msg_keeps_buffer(data) ==
    LET consumed == ubx_decode_msg(data)
    IN  [ consumed |-> consumed,
          packet   |-> Slice(data, 0, consumed),
          rest     |-> data ]

decode_msg(data) ==
    LET consumed == ubx_decode_msg(data)
    IN  [ consumed |-> consumed,
          packet   |-> Slice(data, 0, consumed),
          rest     |-> Slice(data, consumed, Len(data)) ]

\* ------------------------------------------- UBlox.send_data, send2gps: the loop
\* One pass of the loop: the loop test, one decode, the break or the write.
\* send_data tests len(data) first; send2gps loops on True.
LoopEnters(variant, data) == variant = "send2gps" \/ Len(data) > 0

LoopBreaks(consumed) == 0 >= consumed

SendIter ==
    /\ sd_pc = "loop"
    /\ IF ~LoopEnters(sd_variant, sd_data)
       THEN /\ sd_pc' = "done"
            /\ UNCHANGED << sd_variant, sd_data, sd_consumed, sd_written >>
       ELSE LET d == decode_msg(sd_data)
            IN  /\ sd_consumed' = d.consumed
                /\ IF LoopBreaks(d.consumed)
                   THEN /\ sd_pc' = "done"
                        /\ UNCHANGED << sd_variant, sd_data, sd_written >>
                   ELSE /\ sd_data' = d.rest
                        /\ sd_written' = Append(sd_written, d.packet)
                        /\ UNCHANGED << sd_variant, sd_pc >>
    /\ UNCHANGED << waitVars, mainVars, cacheVars >>

\* ------------------------------------------------------------ config, identity
None == << >>
Some(v) == << v >>

TrackedKeys == {"data", "gnss", "lat", "lon", "alt", "pacc", "filteronpos"}

\* load_config's {} : no key at all (config.get(k, None) is None for every key).
Unregistered == [ k \in {"chipcode", "allowedData", "serviceUrl"} \cup TrackedKeys |-> None ]

\* What the credentials service answers on success.
Identity ==
    [ k \in DOMAIN Unregistered |->
        CASE k = "chipcode" -> Some("chip")
          [] k = "allowedData" -> Some("eph,alm")
          [] k = "serviceUrl" -> Some("url")
          [] OTHER -> None ]

is_registered(c) == c["chipcode"] # None

\* bytes.hex(): two hexadecimal digits per byte (upper() changes no digit value).
RECURSIVE hex(_)
hex(b) ==
    IF b = << >> THEN << >>
    ELSE << Head(b) \div 16, Head(b) % 16 >> \o hex(Tail(b))

\* ------------------------------------------------------------- UBlox.wait_for
WaitTimeout == 2

expected(m_cls, m_id) == << SYNC1, SYNC2, m_cls, m_id >>

\* while timeout > (monotonic() - start)
LoopContinues(timeout, elapsed) == timeout > elapsed

\* A loop test that never gives up.
ShouldRecv_always(waiting) == TRUE

\* if 0 < self.io_handle.ser.waiting()
ShouldRecv(waiting) == 0 < waiting

\* sock.recv(8192)
recv(s) == Slice(s, 0, 8192)


\* if packet[0:4] == expected
Matches(packet, m_cls, m_id) == Slice(packet, 0, 4) = expected(m_cls, m_id)

\* The channel hands over the next bytes of the wire, in chunks of any size.
Deliver ==
    /\ m_pc \in {"wait1", "wait2"}
    /\ chunks < MaxChunks
    /\ \E k \in 1..Len(wire) :
         /\ sock' = sock \o SubSeq(wire, 1, k)
         /\ wire' = SubSeq(wire, k + 1, Len(wire))
    /\ chunks' = chunks + 1
    /\ UNCHANGED << tx, w_cmd, w_state, w_data, w_elapsed, w_ret, w_consumed >>
    /\ UNCHANGED << sendVars, mainVars, cacheVars >>

\* The monotonic clock moves on while wait_for polls.
Tick ==
    /\ m_pc \in {"wait1", "wait2"}
    /\ w_elapsed < WaitTimeout
    /\ w_elapsed' = w_elapsed + 1
    /\ UNCHANGED << wire, chunks, sock, tx, w_cmd, w_state, w_data, w_ret, w_consumed >>
    /\ UNCHANGED << sendVars, mainVars, cacheVars >>

\* UBlox.fetch_answer up to the call of wait_for: look the command up, send the
\* poll request, and enter wait_for with an empty buffer.
FetchAnswerSend(msg) ==
    LET cmd == commands[msg]
    IN  /\ tx' = Append(tx, make_pkt(cmd.cls, cmd.id, cmd.data))
        /\ w_cmd' = msg
        /\ w_state' = "polling"
        /\ w_data' = << >>
        /\ w_consumed' = << >>
        /\ w_elapsed' = 0
        /\ UNCHANGED << wire, chunks, sock, w_ret >>

\* wait_for returns `value` to register, which stores answer.hex().upper().
WaitReturn(value) ==
    /\ w_ret' = value
    /\ w_state' = "returned"
    /\ IF m_pc = "wait1"
       THEN /\ sec_uniqid' = hex(value)
            /\ m_pc' = "reg_monver"
            /\ UNCHANGED mon_ver
       ELSE /\ mon_ver' = hex(value)
            /\ m_pc' = "reg_check"
            /\ UNCHANGED sec_uniqid

\* The loop test fails: the timeout has elapsed, wait_for returns b''.
WaitExpire ==
    /\ m_pc \in {"wait1", "wait2"}
    /\ ~LoopContinues(WaitTimeout, w_elapsed)
    /\ WaitReturn(<< >>)
    /\ UNCHANGED << wire, chunks, sock, tx, w_cmd, w_data, w_elapsed, w_consumed >>
    /\ UNCHANGED << m_token, m_exit, m_out, cfg_file, config, r_raised, cloud_calls >>
    /\ UNCHANGED << sendVars, cacheVars >>

\* The body of the loop: the read when bytes are waiting, one decode, the match
\* test.  A recv on an empty socket would block the process.
WaitPoll ==
    /\ m_pc \in {"wait1", "wait2"}
    /\ LoopContinues(WaitTimeout, w_elapsed)
    /\ IF ShouldRecv(Len(sock)) /\ sock = << >>
       THEN /\ m_pc' = "blocked"
            /\ UNCHANGED << sock, w_data, w_consumed, w_ret, w_state,
                            sec_uniqid, mon_ver >>
       ELSE LET doRecv == ShouldRecv(Len(sock))
                d == decode_msg(IF doRecv THEN w_data \o recv(sock) ELSE w_data)
            IN  /\ sock' = IF doRecv THEN Slice(sock, 8192, Len(sock)) ELSE sock
                /\ w_data' = d.rest
                /\ w_consumed' = w_consumed \o d.packet
                /\ IF Matches(d.packet, commands[w_cmd].cls, commands[w_cmd].id)
                   THEN WaitReturn(d.packet)
                   ELSE UNCHANGED << m_pc, w_ret, w_state, sec_uniqid, mon_ver >>
    /\ UNCHANGED << wire, chunks, tx, w_cmd, w_elapsed >>
    /\ UNCHANGED << m_token, m_exit, m_out, cfg_file, config, r_raised, cloud_calls >>
    /\ UNCHANGED << sendVars, cacheVars >>

\* ------------------------------------------------- __main__ and AssistNow.register
\* __main__: construct AssistNow (load_config), then branch on is_registered.
MainStart ==
    /\ m_pc = "main"
    /\ config' = cfg_file
    /\ IF ~is_registered(cfg_file)
       THEN IF ~m_token
            THEN /\ m_out' = << "Device is unregistered" >>
                 /\ m_exit' = 1
                 /\ m_pc' = "exit"
            ELSE /\ m_pc' = "register"
                 /\ UNCHANGED << m_out, m_exit >>
       ELSE /\ m_pc' = "update"
            /\ UNCHANGED << m_out, m_exit >>
    /\ UNCHANGED << m_token, cfg_file, sec_uniqid, mon_ver, r_raised, cloud_calls >>
    /\ UNCHANGED << sendVars, waitVars, cacheVars >>

\* main's except branch: "Error during registration", quit(1).
RegistrationFailed(err) ==
    /\ r_raised' = err
    /\ m_out' = Append(m_out, "Error during registration")
    /\ m_exit' = 1
    /\ m_pc' = "exit"

\* register: the is_registered guard, then the first fetch_answer.
RegisterUniqid ==
    /\ m_pc = "register"
    /\ IF is_registered(config)
       THEN /\ RegistrationFailed("Device already registered.")
            /\ UNCHANGED waitVars
       ELSE /\ FetchAnswerSend("SEC-UNIQID")
            /\ m_pc' = "wait1"
            /\ UNCHANGED << m_exit, m_out, r_raised >>
    /\ UNCHANGED << m_token, cfg_file, config, sec_uniqid, mon_ver, cloud_calls >>
    /\ UNCHANGED << sendVars, cacheVars >>

\* register: the second fetch_answer, made whatever the first returned.
RegisterMonVer ==
    /\ m_pc = "reg_monver"
    /\ FetchAnswerSend("MON-VER")
    /\ m_pc' = "wait2"
    /\ UNCHANGED << m_token, m_exit, m_out, cfg_file, config, sec_uniqid, mon_ver,
                    r_raised, cloud_calls >>
    /\ UNCHANGED << sendVars, cacheVars >>

\* A check that gives up only when both answers are missing.
AnswersMissing_both(sec, mon) == sec = << >> /\ mon = << >>

\* if not sec_uniqid or not mon_ver
AnswersMissing(sec, mon) == sec = << >> \/ mon = << >>

\* save_config: written only when self.config is not empty.
save_config(c, file) == IF c # Unregistered THEN c ELSE file

\* register from the check of the answers to its end, and main's handling of
\* its outcome.  quit(0) raises SystemExit inside the try whose bare except
\* catches it: the handler prints the error and exits with status 1.
RegisterFinish ==
    /\ m_pc = "reg_check"
    /\ IF AnswersMissing(sec_uniqid, mon_ver)
       THEN /\ RegistrationFailed("Device did not answer")
            /\ UNCHANGED << cloud_calls, config, cfg_file >>
       ELSE \E ok \in BOOLEAN :
              /\ cloud_calls' = Append(cloud_calls,
                                       [ token |-> m_token,
                                         uniqid |-> sec_uniqid,
                                         monver |-> mon_ver ])
              /\ IF ~ok
                 THEN /\ RegistrationFailed("HTTPError")
                      /\ UNCHANGED << config, cfg_file >>
                 ELSE /\ config' = Identity
                      /\ cfg_file' = save_config(Identity, cfg_file)
                      /\ r_raised' = "none"
                      /\ m_out' = m_out \o << "Device now registered",
                                              "Error during registration" >>
                      /\ m_exit' = 1
                      /\ m_pc' = "exit"
    /\ UNCHANGED << m_token, sec_uniqid, mon_ver >>
    /\ UNCHANGED << sendVars, waitVars, cacheVars >>

\* --------------------------------------------------------------- Helpers
\* validate_list: None for no value, else every element must be a valid choice;
\* the value is the elements joined by ",".  A list is a sequence of names.
validate_list(values, available_choices) ==
    IF values = None THEN [ ok |-> TRUE, value |-> None, err |-> "none" ]
    ELSE IF \E i \in 1..Len(values[1]) : values[1][i] \notin available_choices
    THEN [ ok |-> FALSE, value |-> None, err |-> "ValueError" ]
    ELSE [ ok |-> TRUE, value |-> values, err |-> "none" ]

\* A key=value text that float() rejects: not of the shape Some(number).
NotANumber == << "abc", "text" >>

\* A validation that moves an out-of-range number to the nearest limit.
validate_number_clamps(value, min_value, max_value, v) ==
    IF value = None \/ Len(value) # 1
    THEN [ ok |-> TRUE, value |-> None, err |-> "none" ]
    ELSE [ ok |-> TRUE, err |-> "none",
           value |-> Some(IF value[1] < min_value THEN min_value
                          ELSE IF value[1] > max_value THEN max_value
                          ELSE value[1]) ]

\* The module global v, which the argument loop of __main__ binds to the value
\* of the last key=value argument.  It is unbound when the module was imported
\* (the __main__ block did not run) or when no argument was given.
GlobalV(kw, imported) ==
    IF \/ imported
       \/ /\ \A k \in DOMAIN kw \ {"other"} : kw[k] = None
          /\ ~kw.other
    THEN "unbound" ELSE "bound"

\* validate_number: None stays None.  Both raise statements format their
\* message with the name v, which the function never binds: the name is looked
\* up in the module (parameter v here).  For a text that is no number, and for
\* a number outside [min, max], what leaves the function is a NameError when
\* the global is unbound, and otherwise a ValueError whose message names the
\* last command-line argument's value.
validate_number(value, min_value, max_value, v) ==
    IF value = None THEN [ ok |-> TRUE, value |-> None, err |-> "none" ]
    ELSE IF Len(value) # 1
    THEN [ ok |-> FALSE, value |-> None,
           err |-> IF v = "unbound" THEN "NameError" ELSE "ValueError" ]
    ELSE IF ~(min_value <= value[1] /\ value[1] <= max_value)
    THEN [ ok |-> FALSE, value |-> None,
           err |-> IF v = "unbound" THEN "NameError" ELSE "ValueError" ]
    ELSE [ ok |-> TRUE, value |-> value, err |-> "none" ]

\* ------------------------------------------------ UBlox.ubx_mga_ini_pos_llh
\* struct.pack "<i": four little-endian bytes of a signed 32-bit integer.
\* The model's signed values stay within 31 bits.
PackI32(x) ==
    LET lo == x % 65536
        hi == ((x - lo) \div 65536) % 65536
    IN  << lo % 256, lo \div 256, hi % 256, hi \div 256 >>

\* pacc_km * 10**6 as two 16-bit limbs (10**6 = 15 * 65536 + 16960); the
\* product fits "<I" iff the high limb is below 65536.
AccLimbs(pacc_km) ==
    LET low == pacc_km * 16960
    IN  [ lo |-> low % 65536, hi |-> pacc_km * 15 + low \div 65536 ]

\* A scaling of the latitude by 10**6 instead of 10**7.
ubx_mga_ini_pos_llh_lat_scale(lat_deg, lon_deg, alt_m, pacc_km) ==
    LET acc == AccLimbs(pacc_km)
    IN  IF pacc_km < 0 \/ acc.hi >= 65536
        THEN [ ok |-> FALSE, pkt |-> << >> ]
        ELSE [ ok |-> TRUE,
               pkt |-> make_pkt(19, 64,
                           << 1, 0, 0, 0 >>
                           \o PackI32(lat_deg * 1000000)
                           \o PackI32(lon_deg * 10000000)
                           \o PackI32(alt_m * 100)
                           \o << acc.lo % 256, acc.lo \div 256,
                                 acc.hi % 256, acc.hi \div 256 >>) ]

\* lat, lon in 1e-7 degrees, alt in cm, accuracy in mm, packed "<3iI" at
\* offset 4 of a 20-byte payload that starts 0x01 0x00; struct.error when the
\* accuracy does not fit 32 unsigned bits.
ubx_mga_ini_pos_llh(lat_deg, lon_deg, alt_m, pacc_km) ==
    LET acc == AccLimbs(pacc_km)
    IN  IF pacc_km < 0 \/ acc.hi >= 65536
        THEN [ ok |-> FALSE, pkt |-> << >> ]
        ELSE [ ok |-> TRUE,
               pkt |-> make_pkt(19, 64,
                           << 1, 0, 0, 0 >>
                           \o PackI32(lat_deg * 10000000)
                           \o PackI32(lon_deg * 10000000)
                           \o PackI32(alt_m * 100)
                           \o << acc.lo % 256, acc.lo \div 256,
                                 acc.hi % 256, acc.hi \div 256 >>) ]

\* ------------------------------------------------------- UBlox.send_data (whole)
\* The packets send_data hands to gps_send_raw, the loop run to its end.
RECURSIVE send_data(_)
send_data(data) ==
    IF ~LoopEnters("send_data", data) THEN << >>
    ELSE LET d == decode_msg(data)
         IN  IF LoopBreaks(d.consumed) THEN << >>
             ELSE << d.packet >> \o send_data(d.rest)

\* ------------------------------------------------------------------ AssistNow
\* A load that leaves out an entry exactly as old as the window.
load_cache_strict(file, age, cache_duration) ==
    IF file # None /\ age * 3600 < cache_duration * 3600 THEN file ELSE None

\* load_cache: the file's bytes if its age is at most cache_duration hours.
load_cache(file, age, cache_duration) ==
    IF file # None /\ age * 3600 <= cache_duration * 3600 THEN file ELSE None

\* save_cache: written only when self.cache is not empty.
save_cache(c, file) == IF c # None /\ c # Some(<< >>) THEN c ELSE file

GnssChoices == {"gps", "glo", "gal", "bds", "qzss"}

\* allowedData of the identity, split at the commas.
AllowedData == {"eph", "alm"}

ParamKeys == {"data", "gnss", "lat", "lon", "alt", "pacc"}

\* The order in which the params dict evaluates its entries.
ParamOrder == << "data", "gnss", "lat", "lon", "alt", "pacc" >>

\* update's params dict: the six validated values, and filteronpos = 1 when
\* lat and lon are both given (no such key otherwise); the first entry whose
\* validation raises ends the construction (bad: its key, err: what it raises).
BuildParams(kw, gv) ==
    LET v == [ k \in ParamKeys |->
                 CASE k = "data" -> validate_list(kw[k], AllowedData)
                   [] k = "gnss" -> validate_list(kw[k], GnssChoices)
                   [] k = "lat"  -> validate_number(kw[k], -90, 90, gv)
                   [] k = "lon"  -> validate_number(kw[k], -180, 180, gv)
                   [] k = "alt"  -> validate_number(kw[k], -1000, 50000, gv)
                   [] OTHER      -> validate_number(kw[k], 0, 6000000, gv) ]
        p == [ k \in ParamKeys |-> v[k].value ]
        failing == { i \in 1..Len(ParamOrder) : ~v[ParamOrder[i]].ok }
        first == CHOOSE i \in failing : \A j \in failing : i <= j
    IN  [ ok |-> failing = {},
          bad |-> IF failing = {} THEN "none" ELSE ParamOrder[first],
          err |-> IF failing = {} THEN "none" ELSE v[ParamOrder[first]].err,
          params |-> IF p["lat"] # None /\ p["lon"] # None
                     THEN p @@ [ filteronpos |-> Some(1) ]
                     ELSE p ]


\* for k, v in params.items(): if self.config.get(k, None) != v
ChangedKeys(c, params) == { k \in DOMAIN params : c[k] # params[k] }

\* A miss test that refetches whenever the parameters are unchanged.
NeedsFetch_always(c) == TRUE

\* if not self.cache
NeedsFetch(c) == c = None \/ c = Some(<< >>)

\* No validated params: the run ended before update built them.
NoParams == [ k \in {} |-> None ]

\* What a run reports: how it ended (path: "hit", "miss" or the error raised),
\* self.config and self.cache at its end, the two files at its end, whether
\* assistnow.cache was written, the validated params, whether load_cache
\* found a file and yielded an entry, whether a tracked parameter had changed,
\* the calls of the fetch collaborator and of ubx_mga_ini_pos_llh, the fetched
\* bytes, what was passed to send_data and the packets it wrote; the key
\* whose validation raised (bad) and the cache_duration argument as given.
IdleRun ==
    [ path |-> "idle", config |-> Unregistered, cfg_file |-> Unregistered,
      bad |-> "none", dur_arg |-> None,
      cache |-> None, cache_file |-> None, saved |-> FALSE,
      params |-> NoParams, had_file |-> FALSE, loaded |-> FALSE, changed |-> FALSE,
      fetches |-> 0, posaid |-> 0, blob |-> << >>,
      send_arg |-> None, sent |-> << >> ]

\* cache_duration=kwargs.get("cache_duration", 3)
CacheDurationArg(kw) ==
    IF kw.cache_duration = None THEN Some(3) ELSE kw.cache_duration

\* AssistNow(cache_duration=...) followed by update(**kwargs), on the files
\* `file_cfg`, `file_cache` (of age `age`), the fetch collaborator answering
\* `fetch` ([ok, blob]), the module global v being `gv`.  kwargs without any key (cache_duration and the keys
\* update does not read included) stands for self.config.
update(file_cfg, file_cache, age, kwargs, fetch, gv) ==
    LET dur == validate_number(CacheDurationArg(kwargs), 0, 24, gv)
    IN  IF ~dur.ok
        THEN [ IdleRun EXCEPT !.path = dur.err, !.bad = "cache_duration",
                              !.dur_arg = kwargs.cache_duration,
                              !.cfg_file = file_cfg, !.cache_file = file_cache,
                              !.had_file = file_cache # None ]
        ELSE
    LET cache_duration == dur.value[1]
        loaded == load_cache(file_cache, age, cache_duration)
        base == [ IdleRun EXCEPT !.config = file_cfg, !.cfg_file = file_cfg,
                                 !.dur_arg = kwargs.cache_duration,
                                 !.cache = loaded, !.cache_file = file_cache,
                                 !.had_file = file_cache # None,
                                 !.loaded = loaded # None ]
    IN  IF ~is_registered(file_cfg)
        THEN [ base EXCEPT !.path = "Device not registered." ]
        ELSE
        LET kw == IF /\ \A k \in ParamKeys : kwargs[k] = None
                     /\ ~kwargs.other
                     /\ kwargs.cache_duration = None
                  THEN [ k \in ParamKeys |-> file_cfg[k] ]
                  ELSE kwargs
            b == BuildParams(kw, gv)
        IN  IF ~b.ok THEN [ base EXCEPT !.path = b.err, !.bad = b.bad ]
            ELSE
            LET params == b.params
                diff == ChangedKeys(file_cfg, params)
                changed == diff # {}
                config1 == [ k \in DOMAIN file_cfg |->
                               IF k \in diff THEN params[k] ELSE file_cfg[k] ]
                file1 == IF changed THEN save_config(config1, file_cfg) ELSE file_cfg
                cache1 == IF changed THEN None ELSE loaded
                r1 == [ base EXCEPT !.config = config1, !.cfg_file = file1,
                                    !.cache = cache1, !.params = params,
                                    !.changed = changed ]
            IN  IF ~NeedsFetch(cache1)
                THEN [ r1 EXCEPT !.path = "hit", !.send_arg = cache1,
                                 !.sent = send_data(cache1[1]) ]
                ELSE IF ~fetch.ok
                THEN [ r1 EXCEPT !.path = "HTTPError", !.fetches = 1 ]
                ELSE
                LET withpos == params["lat"] # None /\ params["lon"] # None
                    pos == ubx_mga_ini_pos_llh(
                               params["lat"][1], params["lon"][1],
                               IF params["alt"] # None THEN params["alt"][1] ELSE 0,
                               IF params["pacc"] # None THEN params["pacc"][1] ELSE 300)
                IN  IF withpos /\ ~pos.ok
                    THEN [ r1 EXCEPT !.path = "struct.error", !.fetches = 1,
                                     !.posaid = 1, !.blob = fetch.blob ]
                    ELSE
                    LET data == IF withpos THEN pos.pkt \o fetch.blob ELSE fetch.blob
                    IN  [ r1 EXCEPT !.path = "miss", !.fetches = 1,
                                    !.posaid = IF withpos THEN 1 ELSE 0,
                                    !.blob = fetch.blob,
                                    !.cache = Some(data),
                                    !.cache_file = save_cache(Some(data), file_cache),
                                    !.saved = save_cache(Some(data), file_cache) = Some(data),
                                    !.send_arg = Some(data),
                                    !.sent = send_data(data) ]

\* ----------------------------------------------------- requests, fetch answers
NumOrNone(vals) == {None} \cup { Some(v) : v \in vals }

\* The key=value arguments of one run; `other` says a key that update does not
\* read (device=...) was given, `cache_duration` is None when not given.
Requests ==
    { kw \in [ data : {None, Some(<< "eph" >>)},
               gnss : {None, Some(<< "gps" >>)},
               lat  : NumOrNone({52}),
               lon  : NumOrNone({4}),
               alt  : NumOrNone({10}),
               pacc : NumOrNone({5000}),
               other : BOOLEAN,
               cache_duration : NumOrNone({1}) ] :
        /\ Cardinality({ k \in {"data", "gnss", "alt", "pacc"} : kw[k] # None })
              <= MaxOptional
        /\ kw.other => \A k \in ParamKeys : kw[k] = None }

AssistBlob == make_pkt(19, 32, << 7 >>)

FetchAnswers ==
    { [ ok |-> FALSE, blob |-> << >> ],
      [ ok |-> TRUE,  blob |-> AssistBlob ],
      [ ok |-> TRUE,  blob |-> << >> ] }

\* self.cache_duration once the constructor has validated it; -1 when the
\* constructor raised and there is no manager.
CacheDuration(kw) ==
    LET dur == validate_number(CacheDurationArg(kw), 0, 24, "bound")
    IN  IF dur.ok THEN dur.value[1] ELSE -1

\* One run of assistnow.py on a registered device: the constructor and update.
Run ==
    /\ runs < MaxRuns
    /\ runs' = runs + 1
    /\ \E kw \in Requests, fetch \in FetchAnswers :
         /\ u_dur' = CacheDuration(kw)
         /\ u_run' = update(cfg_file, cache_file, cache_age, kw, fetch,
                            GlobalV(kw, FALSE))
    /\ cfg_file' = u_run'.cfg_file
    /\ config' = u_run'.config
    /\ cache_file' = u_run'.cache_file
    /\ cache_age' = IF u_run'.saved THEN 0 ELSE cache_age
    /\ cache_prov' = IF u_run'.saved THEN u_run'.params ELSE cache_prov
    /\ UNCHANGED << m_pc, m_token, m_exit, m_out, sec_uniqid, mon_ver, r_raised,
                    cloud_calls >>
    /\ UNCHANGED << sendVars, waitVars >>

\* ------------------------------------------ gpsd-assistnow.py (the stateless script)
\* The loop of send2gps run to its end: what it wrote and what it left.
RECURSIVE send2gps(_)
send2gps(data) ==
    IF ~LoopEnters("send2gps", data) THEN [ written |-> << >>, rest |-> data ]
    ELSE LET d == decode_msg(data)
         IN  IF LoopBreaks(d.consumed) THEN [ written |-> << >>, rest |-> data ]
             ELSE LET r == send2gps(d.rest)
                  IN  [ written |-> << d.packet >> \o r.written, rest |-> r.rest ]

\* assistnow(token, **kwargs) of gpsd-assistnow.py for the keys both scripts
\* read: validation, the fetch, and the position packet built in place with
\* (params["alt"] or 0) and (params["pacc"] or 300).
assistnow(kw, fetch, gv) ==
    LET order == << "gnss", "lat", "lon", "alt", "pacc" >>
        v == [ k \in {"gnss", "lat", "lon", "alt", "pacc"} |->
                 CASE k = "gnss" -> validate_list(kw[k], GnssChoices)
                   [] k = "lat"  -> validate_number(kw[k], -90, 90, gv)
                   [] k = "lon"  -> validate_number(kw[k], -180, 180, gv)
                   [] k = "alt"  -> validate_number(kw[k], -1000, 50000, gv)
                   [] OTHER      -> validate_number(kw[k], 0, 6000000, gv) ]
        failing == { i \in 1..Len(order) : ~v[order[i]].ok }
        first == CHOOSE i \in failing : \A j \in failing : i <= j
    IN  IF failing # {} THEN [ path |-> v[order[first]].err, data |-> << >> ]
        ELSE IF ~fetch.ok THEN [ path |-> "HTTPError", data |-> << >> ]
        ELSE IF v["lat"].value = None \/ v["lon"].value = None
        THEN [ path |-> "ok", data |-> fetch.blob ]
        ELSE
        LET alt == IF v["alt"].value = None \/ v["alt"].value = Some(0)
                   THEN 0 ELSE v["alt"].value[1]
            pacc == IF v["pacc"].value = None \/ v["pacc"].value = Some(0)
                    THEN 300 ELSE v["pacc"].value[1]
            acc == AccLimbs(pacc)
        IN  IF acc.hi >= 65536 THEN [ path |-> "struct.error", data |-> << >> ]
            ELSE [ path |-> "ok",
                   data |-> make_pkt(19, 64,
                               << 1, 0, 0, 0 >>
                               \o PackI32(v["lat"].value[1] * 10000000)
                               \o PackI32(v["lon"].value[1] * 10000000)
                               \o PackI32(alt * 100)
                               \o << acc.lo % 256, acc.lo \div 256,
                                     acc.hi % 256, acc.hi \div 256 >>)
                             \o fetch.blob ]

\* The key=value arguments of one run, valid or not.
WideRequests ==
    { kw \in [ data : {None, Some(<< "eph" >>), Some(<< "xyz" >>)},
               gnss : {None, Some(<< "foo" >>)},
               lat  : NumOrNone({52, 91}) \cup {NotANumber},
               lon  : NumOrNone({4}),
               alt  : NumOrNone({0, 10}),
               pacc : NumOrNone({0, 5, 5000}),
               other : BOOLEAN,
               cache_duration : NumOrNone({-1, 1, 25}) ] :
        /\ Cardinality({ k \in {"data", "gnss", "alt", "pacc"} : kw[k] # None })
              <= MaxOptional
        /\ kw.other => \A k \in ParamKeys : kw[k] = None }

\* The same key=value arguments given to both programs: the constructor and
\* update of assistnow.py, and assistnow followed by send2gps (when it returned
\* data) of gpsd-assistnow.py; both run from the command line, or both called
\* by a program that imported the modules.
RunBoth ==
    /\ runs < MaxWideRuns
    /\ runs' = runs + 1
    /\ \E kw \in WideRequests, fetch \in FetchAnswers, imported \in BOOLEAN :
         /\ u_dur' = CacheDuration(kw)
         /\ u_run' = update(cfg_file, cache_file, cache_age, kw, fetch,
                            GlobalV(kw, imported))
         /\ sd_written' = send2gps(assistnow(kw, fetch,
                                            GlobalV(kw, imported)).data).written
         /\ sd_data' = send2gps(assistnow(kw, fetch,
                                         GlobalV(kw, imported)).data).rest
    /\ sd_variant' = "send2gps"
    /\ sd_pc' = "done"
    /\ sd_consumed' = 0
    /\ cfg_file' = u_run'.cfg_file
    /\ config' = u_run'.config
    /\ cache_file' = u_run'.cache_file
    /\ cache_age' = IF u_run'.saved THEN 0 ELSE cache_age
    /\ cache_prov' = IF u_run'.saved THEN u_run'.params ELSE cache_prov
    /\ UNCHANGED << m_pc, m_token, m_exit, m_out, sec_uniqid, mon_ver, r_raised,
                    cloud_calls >>
    /\ UNCHANGED waitVars

\* Time passes between two runs.
Age ==
    /\ cache_age < MaxAge
    /\ cache_age' = cache_age + 1
    /\ u_dur' = 0
    /\ u_run' = IdleRun
    /\ config' = Unregistered
    /\ UNCHANGED << cfg_file, cache_file, cache_prov, runs >>
    /\ UNCHANGED << m_pc, m_token, m_exit, m_out, sec_uniqid, mon_ver, r_raised,
                    cloud_calls >>
    /\ UNCHANGED << sendVars, waitVars >>

\* ------------------------------------------------------------ specifications
IdleSend ==
    /\ sd_variant = "send_data"
    /\ sd_pc = "done"
    /\ sd_data = << >>
    /\ sd_consumed = -1
    /\ sd_written = << >>

IdleWait ==
    /\ wire = << >>
    /\ chunks = 0
    /\ sock = << >>
    /\ tx = << >>
    /\ w_cmd = "SEC-UNIQID"
    /\ w_state = "idle"
    /\ w_data = << >>
    /\ w_elapsed = 0
    /\ w_ret = << >>
    /\ w_consumed = << >>

IdleMain ==
    /\ m_pc = "exit"
    /\ m_token = FALSE
    /\ m_exit = -1
    /\ m_out = << >>
    /\ cfg_file = Unregistered
    /\ config = Unregistered
    /\ sec_uniqid = << >>
    /\ mon_ver = << >>
    /\ r_raised = "notcalled"
    /\ cloud_calls = << >>

IdleCache ==
    /\ cache_file = None
    /\ cache_age = 0
    /\ cache_prov = NoParams
    /\ runs = 0
    /\ u_dur = 0
    /\ u_run = IdleRun

\* The forwarding loop on any stream.
InitSend ==
    /\ sd_variant \in {"send_data", "send2gps"}
    /\ sd_pc = "loop"
    /\ sd_data \in Streams
    /\ sd_consumed = -1
    /\ sd_written = << >>
    /\ IdleWait
    /\ IdleMain
    /\ IdleCache

NextSend == SendIter

SpecSend == InitSend /\ [][NextSend]_vars

FairSpecSend == SpecSend /\ WF_vars(SendIter)

\* One run of assistnow.py up to the end of registration, the receiver
\* putting any stream on the channel.
InitWait ==
    /\ IdleSend
    /\ IdleCache
    /\ wire \in WireStreams
    /\ chunks = 0
    /\ sock = << >>
    /\ tx = << >>
    /\ w_cmd = "SEC-UNIQID"
    /\ w_state = "idle"
    /\ w_data = << >>
    /\ w_elapsed = 0
    /\ w_ret = << >>
    /\ w_consumed = << >>
    /\ m_pc = "main"
    /\ m_token \in BOOLEAN
    /\ m_exit = -1
    /\ m_out = << >>
    /\ cfg_file \in {Unregistered, Identity}
    /\ config = Unregistered
    /\ sec_uniqid = << >>
    /\ mon_ver = << >>
    /\ r_raised = "notcalled"
    /\ cloud_calls = << >>

NextWait ==
    \/ MainStart
    \/ RegisterUniqid
    \/ RegisterMonVer
    \/ RegisterFinish
    \/ WaitPoll
    \/ WaitExpire
    \/ Tick
    \/ Deliver

SpecWait == InitWait /\ [][NextWait]_vars

\* The process keeps running and the monotonic clock keeps moving: a step
\* that can be taken is eventually taken.
FairSpecWait ==
    /\ SpecWait
    /\ WF_vars(Tick)
    /\ WF_vars(WaitExpire)
    /\ WF_vars(MainStart)
    /\ WF_vars(RegisterUniqid)
    /\ WF_vars(RegisterMonVer)
    /\ WF_vars(RegisterFinish)

\* Runs of assistnow.py on the files a registration left (or did not leave).
InitCache ==
    /\ IdleSend
    /\ IdleWait
    /\ IdleCache
    /\ m_pc = "update"
    /\ m_token = FALSE
    /\ m_exit = -1
    /\ m_out = << >>
    /\ cfg_file \in {Unregistered, Identity}
    /\ config = Unregistered
    /\ sec_uniqid = << >>
    /\ mon_ver = << >>
    /\ r_raised = "notcalled"
    /\ cloud_calls = << >>

NextCache == Run \/ Age

\* Runs of both scripts on arguments of any kind.
NextWide == RunBoth \/ Age

SpecWide == InitCache /\ [][NextWide]_vars

SpecCache == InitCache /\ [][NextCache]_vars

\* ------------------------------------------------------------------ C9, C10
\* C9: the forwarding loop writes to the transport only valid packets: byte
\* ranges that begin with the sync marker and whose checksum matches.
C9_OnlyValidPacketsWritten ==
    \A i \in 1..Len(sd_written) : IsValidPacket(sd_written[i])

\* C10: the forwarding loop terminates on every finite stream: a decode that
\* reports consumed = 0 ends it (send_data also ends on an empty buffer), and
\* every pass that does not end it strictly shortens the remaining buffer.
C10_ForwardingTerminates ==
    /\ [][ sd_pc = "loop" =>
             /\ (sd_consumed' = 0 => sd_pc' = "done")
             /\ (sd_pc' = "loop" => Len(sd_data') < Len(sd_data))
             /\ (sd_pc' = "done" =>
                    \/ sd_consumed' = 0
                    \/ (sd_variant = "send_data" /\ sd_data = << >>)) ]_vars
    /\ <>(sd_pc = "done")

\* A stream ending in bytes that are no complete message: packets were written,
\* the last decode reported 0 and the loop stopped with bytes left.
C10_Witness ==
    /\ sd_pc = "done"
    /\ sd_consumed = 0
    /\ Len(sd_data) > 0
    /\ Len(sd_written) > 0

\* ------------------------------------------------------------------ C6, C7, C8
\* The first valid frame with the requested class and id in a byte string,
\* << >> when there is none.
RECURSIVE FirstValidMatchFrom(_, _, _)
FirstValidMatchFrom(s, i, exp) ==
    IF i + 7 > Len(s) THEN << >>
    ELSE LET last == i + 7 + s[i + 4] + 256 * s[i + 5]
         IN  IF /\ SubSeq(s, i, i + 3) = exp
                /\ last <= Len(s)
                /\ IsValidPacket(SubSeq(s, i, last))
             THEN SubSeq(s, i, last)
             ELSE FirstValidMatchFrom(s, i + 1, exp)

WaitExpected == expected(commands[w_cmd].cls, commands[w_cmd].id)

\* C6: wait_for returns the first valid packet with the requested (class, id),
\* starting at its sync bytes, whatever non-matching packets and noise precede
\* it: once the decoder has consumed such a packet, that packet is what
\* wait_for returns.
C6_ReturnsFirstMatch ==
    (w_state = "returned" /\ FirstValidMatchFrom(w_consumed, 1, WaitExpected) # << >>)
        => w_ret = FirstValidMatchFrom(w_consumed, 1, WaitExpected)

\* Whether the 4-byte header sync, sync, class, id occurs anywhere in s.
HeaderOccurs(s, exp) == \E i \in 1..(Len(s) - 3) : SubSeq(s, i, i + 3) = exp

\* C7: wait_for always terminates; it never reads when no bytes are reported
\* available (such a read would block); on bytes that hold no packet for the
\* request it returns the empty result, and it returns the empty result only
\* once the timeout has elapsed.
C7_WaitForTerminates ==
    /\ <>(m_pc \in {"exit", "update"})
    /\ [](m_pc # "blocked")
    /\ []((w_state = "returned" /\ ~HeaderOccurs(w_consumed \o w_data, WaitExpected))
            => w_ret = << >>)
    /\ []((w_state = "returned" /\ w_ret = << >>) => w_elapsed >= WaitTimeout)

\* wait_for gave up at the timeout with an incomplete packet still buffered.
C7_Witness ==
    /\ w_state = "returned"
    /\ w_ret = << >>
    /\ w_elapsed >= WaitTimeout
    /\ w_data # << >>
    /\ w_consumed # << >>

\* C8: registration needs both receiver answers: the credentials service is
\* called only after both are non-empty, and when one is empty register fails
\* with "Device did not answer", no call is made, and the identity stays unset
\* and unsaved.
C8_RegistrationNeedsBothAnswers ==
    /\ cloud_calls # << >> => (sec_uniqid # << >> /\ mon_ver # << >>)
    /\ (m_pc = "exit" /\ r_raised # "notcalled"
          /\ (sec_uniqid = << >> \/ mon_ver = << >>))
        => /\ r_raised = "Device did not answer"
           /\ cloud_calls = << >>
           /\ config = Unregistered
           /\ cfg_file = Unregistered
           /\ ~is_registered(config)

\* The unique id was answered, the firmware version query timed out.
C8_Witness ==
    /\ m_pc = "exit"
    /\ r_raised = "Device did not answer"
    /\ sec_uniqid # << >>
    /\ mon_ver = << >>

\* ------------------------------------------------------------------ C1 .. C5
\* The value a request gives a tracked key: None when its params have no such
\* key (filteronpos without both lat and lon).
ReqParam(params, k) == IF k \in DOMAIN params THEN params[k] ELSE None

\* The step is a run of update that got past validation.
RunValidated(r) == r.path \in {"hit", "miss", "HTTPError", "struct.error"}

\* C1: whenever update takes the "Valid cache found" path, the stored bytes it
\* sends came from a successful fetch made with tracked parameters equal to the
\* validated parameters of the current request.
C1_CacheHitSound ==
    u_run.path = "hit" =>
        \A k \in TrackedKeys : ReqParam(cache_prov, k) = ReqParam(u_run.params, k)

\* C2: on a cache hit (an entry is stored, its age is within the window, every
\* tracked parameter of the request equals the recorded value) update calls no
\* fetch, builds no position-aid packet, passes exactly the stored bytes to
\* send_data, and leaves the stored data, the recorded parameters and the
\* entry's timestamp unchanged.
C2_HitChangesNothing ==
    [][ ( /\ runs' = runs + 1
          /\ RunValidated(u_run')
          /\ cache_file # None
          /\ cache_age * 3600 <= u_dur' * 3600
          /\ \A k \in TrackedKeys : ReqParam(u_run'.params, k) = cfg_file[k] )
        => ( /\ u_run'.path = "hit"
             /\ u_run'.fetches = 0
             /\ u_run'.posaid = 0
             /\ u_run'.send_arg = cache_file
             /\ u_run'.sent = send_data(cache_file[1])
             /\ cache_file' = cache_file
             /\ cfg_file' = cfg_file
             /\ cache_age' = cache_age ) ]_vars

\* A hit on an entry that was built with a position: its packets were sent.
C2_Witness ==
    /\ u_run.path = "hit"
    /\ ReqParam(u_run.params, "filteronpos") # None
    /\ cache_age > 0
    /\ Len(u_run.sent) = 2

\* C3: if any tracked parameter of a validated request, the derived filteronpos
\* included, differs from the recorded value, update discards the entry and
\* calls the fetch collaborator exactly once.
C3_ChangedParamRefetches ==
    [][ ( /\ runs' = runs + 1
          /\ RunValidated(u_run')
          /\ \E k \in TrackedKeys : ReqParam(u_run'.params, k) # cfg_file[k] )
        => ( u_run'.path # "hit" /\ u_run'.fetches = 1 ) ]_vars

\* C4: a stored entry older than cache_duration hours is never served:
\* load_cache yields nothing and the run fetches, whatever the request; an
\* entry at most that old is loaded.
C4_ExpiredEntryNotServed ==
    [][ ( /\ runs' = runs + 1
          /\ RunValidated(u_run')
          /\ cache_file # None )
        => IF cache_age * 3600 > u_dur' * 3600
           THEN /\ ~u_run'.loaded
                /\ u_run'.path # "hit"
                /\ u_run'.fetches = 1
           ELSE u_run'.loaded ]_vars

\* A request identical to the recorded one found the entry expired and fetched.
C4_Witness ==
    /\ u_run.path = "miss"
    /\ u_run.had_file
    /\ ~u_run.loaded
    /\ ~u_run.changed
    /\ u_run.fetches = 1

\* struct.unpack "<i" and "<I" (the latter for values below 2**31).
UnpackI32(b) ==
    b[1] + 256 * b[2] + 65536 * b[3]
      + 16777216 * (IF b[4] < 128 THEN b[4] ELSE b[4] - 256)

ParamOr(params, k, default) == IF params[k] # None THEN params[k][1] ELSE default

\* The 20 bytes p encode the request's position: 0x01 0x00 and two zero bytes,
\* then lat and lon in 1e-7 degrees, alt in cm, accuracy in mm.
IsPositionPayload(p, params) ==
    /\ Len(p) = 20
    /\ SubSeq(p, 1, 4) = << 1, 0, 0, 0 >>
    /\ UnpackI32(SubSeq(p, 5, 8)) = params["lat"][1] * 10000000
    /\ UnpackI32(SubSeq(p, 9, 12)) = params["lon"][1] * 10000000
    /\ UnpackI32(SubSeq(p, 13, 16)) = ParamOr(params, "alt", 0) * 100
    /\ UnpackI32(SubSeq(p, 17, 20)) = ParamOr(params, "pacc", 300) * 1000000

C11_InvalidRequestNoEffect ==
    [][ (runs' = runs + 1 /\ u_run'.bad \in ParamKeys)
        => ( /\ u_run'.path = "ValueError"
             /\ u_run'.config = cfg_file
             /\ cfg_file' = cfg_file
             /\ cache_file' = cache_file
             /\ cache_age' = cache_age
             /\ u_run'.fetches = 0
             /\ u_run'.posaid = 0
             /\ u_run'.sent = << >> ) ]_vars

\* What wait_for returns when the bytes s are in its buffer at once: the first
\* decoded packet whose first four bytes are the expected header.
RECURSIVE WholeResult(_, _)
WholeResult(s, exp) ==
    LET consumed == ubx_decode_msg(s)
    IN  IF consumed <= 0 THEN << >>
        ELSE IF Slice(s, 0, 4) = exp /\ consumed >= 4 THEN Slice(s, 0, consumed)
        ELSE WholeResult(Slice(s, consumed, Len(s)), exp)

\* C12: the result of wait_for does not depend on how the transport splits the
\* stream into chunks: what it returns is what one decode pass over the bytes
\* it received returns, a timeout means no packet it consumed matched, and
\* while it waits no byte is lost: a prefix of a packet stays in the buffer
\* (consumed = 0) until the rest arrives.
C12_ChunkingIndependent ==
    /\ [](w_state = "returned" =>
            IF w_ret # << >>
            THEN w_ret = WholeResult(w_consumed \o w_data, WaitExpected)
            ELSE WholeResult(w_consumed, WaitExpected) = << >>)
    /\ [][ (m_pc \in {"wait1", "wait2"}) =>
             w_consumed' \o w_data' \o sock' \o wire'
               = w_consumed \o w_data \o sock \o wire ]_vars

\* The buffer holds the first bytes of the answer, nothing was consumed, and
\* the rest of the answer is still to arrive.
C12_Witness ==
    /\ m_pc = "wait1"
    /\ w_consumed = << >>
    /\ Len(w_data) \in 1..(Len(UniqidPkt) - 1)
    /\ w_data = SubSeq(UniqidPkt, 1, Len(w_data))
    /\ sock = << >>
    /\ wire = SubSeq(UniqidPkt, Len(w_data) + 1, Len(UniqidPkt))

\* C13: if the fetch fails during update, it was called once, nothing is
\* written to the transport, and the persisted tracked parameters and the
\* persisted cache data are what they were before the update.
C13_FailedFetchChangesNothing ==
    [][ (runs' = runs + 1 /\ u_run'.path = "HTTPError")
        => ( /\ u_run'.fetches = 1
             /\ u_run'.sent = << >>
             /\ cache_file' = cache_file
             /\ cfg_file' = cfg_file ) ]_vars

\* C14: for parameters that pass validation, building the position-aid packet
\* has no error path: update never ends in struct.error.
C14_PositionPacketNeverFails ==
    u_run.path # "struct.error"

\* C15: wait_for never returns a packet whose checksum does not match.
C15_ReturnsOnlyValidPackets ==
    (w_state = "returned" /\ w_ret # << >>) => IsValidPacket(w_ret)

\* The run of assistnow.py was given key=value arguments (it did not fall
\* back on the recorded parameters): it changed the record or named the window.
ArgsGiven(r) == r.changed \/ r.dur_arg # None

\* C16: given the same validated lat, lon, alt and pacc, assistnow.py and
\* gpsd-assistnow.py build the same 20-byte position payload, and both put the
\* packet first exactly when lat and lon are both given.
C16_SamePositionPacket ==
    (u_run.path = "miss" /\ ArgsGiven(u_run)) =>
        IF ReqParam(u_run.params, "filteronpos") # None
        THEN /\ Len(sd_written) >= 1
             /\ Len(sd_written[1]) = 28
             /\ SubSeq(sd_written[1], 7, 26) = SubSeq(u_run.cache[1], 7, 26)
        ELSE sd_written = u_run.sent

\* The recorded tracked parameters are exactly `params`, and filteronpos is
\* recorded iff lat and lon both are.
RecordedIs(file, params) ==
    /\ \A k \in TrackedKeys : file[k] = ReqParam(params, k)
    /\ (file["filteronpos"] # None) <=> (file["lat"] # None /\ file["lon"] # None)

\* C17: after any sequence of successful updates the recorded tracked
\* parameters are the validated parameters of the most recent request, and
\* filteronpos is recorded iff lat and lon both are.  Stated step by step: a
\* successful update that follows the registration, or a successful update
\* that left the record right, leaves the record right.
C17_RecordedParamsAreRequest ==
    [][ ( /\ runs' = runs + 1
          /\ u_run'.path \in {"hit", "miss"}
          /\ \/ runs = 0
             \/ u_run.path \in {"hit", "miss"} /\ RecordedIs(cfg_file, u_run.params) )
        => RecordedIs(cfg_file', u_run'.params) ]_vars

\* C18 as stated: a cache_duration below 0 or above 24 gives a manager whose
\* window is the nearest bound.
C18_WindowClamped ==
    [][ (runs' = runs + 1 /\ u_run'.dur_arg # None)
        => u_dur' = ( IF u_run'.dur_arg[1] < 0 THEN 0
                      ELSE IF u_run'.dur_arg[1] > 24 THEN 24
                      ELSE u_run'.dur_arg[1] ) ]_vars

\* C18, amended: the window is not clamped.  A cache_duration below 0 or above
\* 24 makes the constructor fail: no manager is built, nothing is loaded,
\* fetched, sent or written.  A cache_duration inside [0, 24] is used as
\* given, and 3 when none is given.
C18_WindowValidated ==
    [][ (runs' = runs + 1)
        => IF u_run'.dur_arg = None THEN u_dur' = 3
           ELSE IF 0 <= u_run'.dur_arg[1] /\ u_run'.dur_arg[1] <= 24
           THEN u_dur' = u_run'.dur_arg[1] /\ u_run'.bad # "cache_duration"
           ELSE /\ u_run'.bad = "cache_duration"
                /\ u_run'.path \notin {"hit", "miss"}
                /\ u_dur' = -1
                /\ ~u_run'.loaded
                /\ u_run'.fetches = 0
                /\ u_run'.sent = << >>
                /\ cfg_file' = cfg_file
                /\ cache_file' = cache_file ]_vars

\* A run with cache_duration=25 on a registered device with a stored entry.
C18_Witness ==
    /\ u_run.bad = "cache_duration"
    /\ u_run.dur_arg = Some(25)
    /\ is_registered(cfg_file)
    /\ cache_file # None

\* C19: when register completes without raising, the process ends with exit
\* status 0 after "Device now registered" and never prints "Error during
\* registration"; the handler and status 1 are reached only when register
\* fails.
C19_RegisterSuccessExitsZero ==
    (m_pc = "exit" /\ r_raised = "none") =>
        /\ m_exit = 0
        /\ \A i \in 1..Len(m_out) : m_out[i] # "Error during registration"

====
